---- MODULE Spec2Model ----
(***************************************************************************)
(* A model of the recursive-descent parser of src/src/parser/Parser.cpp:   *)
(* the token cursor, the parent-linked blocks with their variable maps,    *)
(* the function table, and the statement and expression builders.          *)
(***************************************************************************)
EXTENDS Naturals, Sequences, FiniteSets, TLC

VARIABLES
    toks,      \* the token stream the scanner delivers, ending in T_EOF
    pos,       \* index of the lookahead token (scr->getToken(), next)
    current,   \* the token consumed last (Parser::current)
    block,     \* the current-block cursor (Parser::block), 0 is nullptr
    blocks,    \* every BlockStatement created so far, by identity
    program,   \* the function table (Program), name -> FunctionDefinition
    stack,     \* the activations of parseStmtBlock that have not returned
    pc,        \* where the parse stands
    fault      \* the message of the runtime_error raised, "" when none

vars == <<toks, pos, current, block, blocks, program, stack, pc, fault>>

-----------------------------------------------------------------------------
(* Token types, by the names the parser uses for them.                     *)

K_Fun == "fun"
K_Var == "var"
K_If == "if"
K_Else == "else"
K_While == "while"
K_Return == "return"
K_Continue == "continue"
K_Break == "break"
K_Append == "append"
K_Len == "len"
I_Identifier == "id"
L_Numeric == "num"
T_OpenParen == "("
T_CloseParen == ")"
T_OpenBrace == "{"
T_CloseBrace == "}"
T_OpenBracket == "["
T_CloseBracket == "]"
T_Comma == ","
T_Semicolon == ";"
T_Colon == ":"
T_Equal == "="
T_Equal2 == "=="
T_NotEqual == "!="
T_LessThan == "<"
T_LeEqThan == "<="
T_GreaterThan == ">"
T_GrEqThan == ">="
T_Plus == "+"
T_Minus == "-"
T_Asterisk == "*"
T_Slash == "/"
T_Exclamation == "!"
T_Bar2 == "||"
T_Ampersand2 == "&&"
T_EOF == "eof"

(* The messages of the runtime_errors, under the names of the faults.      *)
SyntaxError == "Wrong token"
BlockParseInvalid == "Block parse invalid"
DuplicateVariable == "Variable already initialized"
UndefinedVariable == "Variable not found"
UndefinedFunction == "Function not found"
ArityMismatch == "Wrong number of parameters in functionCall"
UnrecognizedExpression == "Unknown math expression"

Tk(t) == [t |-> t, v |-> ""]
Id(v) == [t |-> I_Identifier, v |-> v]
Num(v) == [t |-> L_Numeric, v |-> v]

-----------------------------------------------------------------------------
(* AST nodes: a kind, its string attributes, the blocks (slots) it refers  *)
(* to, and its owned children.                                              *)

Node(k, a, b, xs) == [k |-> k, a |-> a, b |-> b, xs |-> xs]
Nil == Node("Nil", <<>>, <<>>, <<>>)

(* What a builder hands back: the fault raised ("" for none), the cursor   *)
(* it stopped at, and the node built.                                       *)
R(f, p, n) == [f |-> f, p |-> p, n |-> n]
Throw(f, p) == R(f, p, Nil)

-----------------------------------------------------------------------------
(* The scanner: move() makes the lookahead the current token and reads     *)
(* the next one; at the end of input it keeps delivering T_EOF.            *)

move(p) == IF toks[p].t = T_EOF THEN p ELSE p + 1

(* accept(type, doThrow): the test of line 21.                             *)
accept(p, type) == toks[p].t = type

-----------------------------------------------------------------------------
(* BlockStatement: the variable map and the parent link.                   *)

RECURSIVE blockExistVariable(_, _)
blockExistVariable(b, name) ==
    IF b = 0 THEN FALSE
    ELSE IF name \in blocks[b].vars THEN TRUE
    ELSE blockExistVariable(blocks[b].parent, name)

(* The block that owns the slot, 0 when the chain is exhausted.            *)
RECURSIVE blockFindVariable(_, _)
blockFindVariable(b, name) ==
    IF b = 0 THEN 0
    ELSE IF name \in blocks[b].vars THEN b
    ELSE blockFindVariable(blocks[b].parent, name)

(* Parser::existVariable(): TRUE when it returns, FALSE when it throws     *)
(* "Variable not found".                                                    *)
existVariable(name) == blockExistVariable(block, name)

(* Program::existFunction, Program::findFunction, FunctionDefinition::size *)
existFunction(name) == name \in DOMAIN program
functionSize(name) == Len(program[name].params)

-----------------------------------------------------------------------------
(* The expression builders. Each takes the cursor it starts at.            *)

(* The builders call one another through `parse`, which stands for the     *)
(* direct call of the builder it names.                                     *)
RECURSIVE parse(_, _, _)
OrExpr(p) == parse("parseOrExpr", "", p)
AndExpr(p) == parse("parseAndExpr", "", p)
RelExpr(p) == parse("parseRelExpr", "", p)
BaseLogicExpr(p) == parse("parseBaseLogicExpr", "", p)
AddExpr(p) == parse("parseAddExpr", "", p)
MultExpr(p) == parse("parseMultExpr", "", p)
BaseMathExpr(p) == parse("parseBaseMathExpr", "", p)
FunCall(name, p) == parse("parseFunCall", name, p)

RECURSIVE parseOrExprLoop(_, _), parseAndExprLoop(_, _)
RECURSIVE parseAddExprLoop(_, _, _), parseMultExprLoop(_, _, _)
RECURSIVE parseFunCallLoop(_, _, _)

(* A runtime_error raised in a callee leaves the caller at once; else the  *)
(* caller goes on with what the callee returned.                           *)
Bind(r, K(_)) == IF r.f # "" THEN r ELSE K(r)

(* accept(type, THROW) at the cursor p, then the rest.                     *)
Expect(p, type, rest) == IF accept(p, type) THEN rest ELSE Throw(SyntaxError, p)

(* while (accept(T_Bar2)) logicExpr->addOr(parseAndExpr())     *)
parseOrExprLoop(xs, p) ==
    IF accept(p, T_Bar2)
    THEN Bind(AndExpr(move(p)),
              LAMBDA r : parseOrExprLoop(Append(xs, r.n), r.p))
    ELSE R("", p, Node("Or", <<>>, <<>>, xs))

parseOrExpr(p) ==
    Bind(AndExpr(p), LAMBDA r : parseOrExprLoop(<<r.n>>, r.p))

(* while (accept(T_Ampersand2)) andExpr->addAnd(parseRelExpr())  *)
parseAndExprLoop(xs, p) ==
    IF accept(p, T_Ampersand2)
    THEN Bind(RelExpr(move(p)),
              LAMBDA r : parseAndExprLoop(Append(xs, r.n), r.p))
    ELSE R("", p, Node("And", <<>>, <<>>, xs))

parseAndExpr(p) ==
    Bind(RelExpr(p), LAMBDA r : parseAndExprLoop(<<r.n>>, r.p))

Comparators ==
    {T_Equal2, T_NotEqual, T_LessThan, T_LeEqThan, T_GreaterThan, T_GrEqThan}

(* One left operand and, when the lookahead is a comparator, one right     *)
(* operand: the switch of lines 290-305 runs once.                         *)
parseRelExpr(p) ==
    Bind(BaseLogicExpr(p),
         LAMBDA l :
            IF toks[l.p].t \in Comparators
            THEN Bind(BaseLogicExpr(move(l.p)),
                      LAMBDA r : R("", r.p,
                                   Node("Rel", <<toks[l.p].t>>, <<>>, <<l.n, r.n>>)))
            ELSE R("", l.p, Node("Rel", <<>>, <<>>, <<l.n>>)))

(* The '!' applied to the multiplicative chain that follows it only.       *)
parseBaseLogicExprMultOnly(p) ==
    IF accept(p, T_Exclamation)
    THEN Bind(MultExpr(move(p)),
              LAMBDA r : R("", r.p, Node("BaseLogic", <<"!">>, <<>>, <<r.n>>)))
    ELSE Bind(AddExpr(p),
              LAMBDA r : R("", r.p, Node("BaseLogic", <<>>, <<>>, <<r.n>>)))

(* An optional '!' and then the whole additive chain.                      *)
parseBaseLogicExpr(p) ==
    IF accept(p, T_Exclamation)
    THEN Bind(AddExpr(move(p)),
              LAMBDA r : R("", r.p, Node("BaseLogic", <<"!">>, <<>>, <<r.n>>)))
    ELSE Bind(AddExpr(p),
              LAMBDA r : R("", r.p, Node("BaseLogic", <<>>, <<>>, <<r.n>>)))

parseAddExprLoop(ops, xs, p) ==
    IF toks[p].t \in {T_Plus, T_Minus}
    THEN Bind(MultExpr(move(p)),
              LAMBDA r : parseAddExprLoop(Append(ops, toks[p].t),
                                          Append(xs, r.n), r.p))
    ELSE R("", p, Node("Add", ops, <<>>, xs))

parseAddExpr(p) ==
    Bind(MultExpr(p), LAMBDA r : parseAddExprLoop(<<>>, <<r.n>>, r.p))

parseMultExprLoop(ops, xs, p) ==
    IF toks[p].t \in {T_Asterisk, T_Slash}
    THEN Bind(BaseMathExpr(move(p)),
              LAMBDA r : parseMultExprLoop(Append(ops, toks[p].t),
                                           Append(xs, r.n), r.p))
    ELSE R("", p, Node("Mult", ops, <<>>, xs))

parseMultExpr(p) ==
    Bind(BaseMathExpr(p), LAMBDA r : parseMultExprLoop(<<>>, <<r.n>>, r.p))

(* while (accept(T_Comma)) { accept(L_Numeric, THROW); push_back }, ']'    *)
RECURSIVE parseVectorLiteralLoop(_, _)
parseVectorLiteralLoop(vs, p) ==
    IF accept(p, T_Comma)
    THEN Expect(move(p), L_Numeric,
                parseVectorLiteralLoop(Append(vs, toks[move(p)].v), move(move(p))))
    ELSE Expect(p, T_CloseBracket,
                R("", move(p), Node("Var", <<"list">> \o vs, <<>>, <<>>)))

parseVectorLiteral(p) ==
    Expect(p, L_Numeric, parseVectorLiteralLoop(<<toks[p].v>>, move(p)))

(* Var& v = block->findVariable(name): the block that holds the slot; the  *)
(* lookup of a name no block of the chain declares raises the fault.       *)
findVariable(name, p) ==
    IF blockFindVariable(block, name) = 0
    THEN Throw(UndefinedVariable, p)
    ELSE R("", p, blockFindVariable(block, name))

(* len '(' identifier ')': the cursor is past `len`.                       *)
parseLenStatement(p) ==
    Expect(p, T_OpenParen,
    Expect(move(p), I_Identifier,
    Bind(findVariable(toks[move(p)].v, move(move(p))), LAMBDA var :
    Expect(move(move(p)), T_CloseParen,
    R("", move(move(move(p))), Node("Len", <<toks[move(p)].v>>, <<var.n>>, <<>>))))))

(* functionDef.size() != functionCall->size(), tested with `<`.            *)
checkSizeLess(name, xs, p) ==
    IF functionSize(name) < Len(xs)
    THEN Throw(ArityMismatch, p)
    ELSE R("", p, Node("FunctionCall", <<name>>, <<>>, xs))

(* lines 182-187: the call with the arguments xs, the cursor past ')'.     *)
checkSize(name, xs, p) ==
    IF functionSize(name) # Len(xs)
    THEN Throw(ArityMismatch, p)
    ELSE R("", p, Node("FunctionCall", <<name>>, <<>>, xs))

(* The arguments after the first, each after a comma, up to ')'.           *)
parseFunCallLoop(name, xs, p) ==
    IF accept(p, T_CloseParen) THEN checkSize(name, xs, move(p))
    ELSE Expect(p, T_Comma,
                Bind(OrExpr(move(p)),
                     LAMBDA r : parseFunCallLoop(name, Append(xs, r.n), r.p)))

(* parseFunCall(name): the cursor is past the '(' of the call.        *)
parseFunCall(name, p) ==
    IF ~existFunction(name) THEN Throw(UndefinedFunction, p)
    ELSE IF accept(p, T_CloseParen) THEN checkSize(name, <<>>, move(p))
    ELSE Bind(OrExpr(p), LAMBDA r : parseFunCallLoop(name, <<r.n>>, r.p))

(* A variable primary: the cursor is past the identifier, which is still   *)
(* the current token; u is the unary flag.                                  *)
parseVariable(u, name, p) ==
    IF ~existVariable(name) THEN Throw(UndefinedVariable, p)
    ELSE IF accept(p, T_OpenBracket)
    THEN Bind(OrExpr(move(p)), LAMBDA i :
            IF accept(i.p, T_Colon)
            THEN Bind(OrExpr(move(i.p)), LAMBDA s :
                    Bind(findVariable(name, s.p), LAMBDA var :
                    Expect(s.p, T_CloseBracket,
                    R("", move(s.p),
                      Node("BaseMath", <<u, "slice", name>>, <<var.n>>,
                           <<Node("Or", <<>>, <<>>, <<i.n>>),
                             Node("Or", <<>>, <<>>, <<s.n>>)>>)))))
            ELSE Bind(findVariable(name, i.p), LAMBDA var :
                 Expect(i.p, T_CloseBracket,
                 R("", move(i.p),
                   Node("BaseMath", <<u, "index", name>>, <<var.n>>,
                        <<Node("Or", <<>>, <<>>, <<i.n>>)>>)))))
    ELSE Bind(findVariable(name, p), LAMBDA var :
         R("", p, Node("BaseMath", <<u, "var", name>>, <<var.n>>, <<>>)))

(* What follows the optional unary '-': the alternatives in the order the  *)
(* code tries them.                                                         *)
parsePrimary(u, p) ==
    IF accept(p, L_Numeric)
    THEN R("", move(p), Node("BaseMath", <<u, "int", toks[p].v>>, <<>>, <<>>))
    ELSE IF accept(p, T_OpenBracket)
    THEN Bind(parseVectorLiteral(move(p)), LAMBDA r :
            R("", r.p, Node("BaseMath", <<u, "literal">>, <<>>, <<r.n>>)))
    ELSE IF accept(p, T_OpenParen)
    THEN Bind(OrExpr(move(p)), LAMBDA r :
            Expect(r.p, T_CloseParen,
            R("", move(r.p), Node("BaseMath", <<u, "expr">>, <<>>, <<r.n>>))))
    ELSE IF accept(p, K_Len)
    THEN Bind(parseLenStatement(move(p)), LAMBDA r :
            R("", r.p, Node("BaseMath", <<u, "stmt">>, <<>>, <<r.n>>)))
    ELSE IF accept(p, I_Identifier)
    THEN IF accept(move(p), T_OpenParen)
         THEN Bind(FunCall(toks[p].v, move(move(p))), LAMBDA r :
                 R("", r.p, Node("BaseMath", <<u, "stmt">>, <<>>, <<r.n>>)))
         ELSE parseVariable(u, toks[p].v, move(p))
    ELSE Throw(UnrecognizedExpression, p)

parseBaseMathExpr(p) ==
    IF accept(p, T_Minus) THEN parsePrimary("-", move(p)) ELSE parsePrimary("+", p)

parse(fn, name, p) ==
    CASE fn = "parseOrExpr" -> parseOrExpr(p)
      [] fn = "parseAndExpr" -> parseAndExpr(p)
      [] fn = "parseRelExpr" -> parseRelExpr(p)
      [] fn = "parseBaseLogicExpr" -> parseBaseLogicExpr(p)
      [] fn = "parseAddExpr" -> parseAddExpr(p)
      [] fn = "parseMultExpr" -> parseMultExpr(p)
      [] fn = "parseBaseMathExpr" -> parseBaseMathExpr(p)
      [] fn = "parseFunCall" -> parseFunCall(name, p)

-----
(* The statement builders that leave the blocks alone.                     *)

parseReturnStatement(p) ==
    Bind(parseOrExpr(p), LAMBDA r :
       Expect(r.p, T_Semicolon,
       R("", move(r.p), Node("Return", <<"Return">>, <<>>, <<r.n>>))))

(* The second operand looked up under the first operand's name.            *)
parseAppendStatementFromTwice(p) ==
    Expect(p, T_OpenParen,
    Expect(p + 1, I_Identifier,
    Bind(findVariable(toks[p + 1].v, p + 2), LAMBDA from :
    Expect(p + 2, T_Comma,
    Expect(p + 3, I_Identifier,
    Bind(findVariable(toks[p + 1].v, p + 4), LAMBDA to :
    Expect(p + 4, T_CloseParen,
    Expect(p + 5, T_Semicolon,
    R("", p + 6,
      Node("Append", <<toks[p + 1].v, toks[p + 3].v>>, <<from.n, to.n>>, <<>>))))))))))

(* append '(' identifier ',' identifier ')' ';': each operand is looked up *)
(* with findVariable as soon as it is accepted; the cursor is past         *)
(* `append`.                                                                 *)
parseAppendStatement(p) ==
    Expect(p, T_OpenParen,
    Expect(p + 1, I_Identifier,
    Bind(findVariable(toks[p + 1].v, p + 2), LAMBDA from :
    Expect(p + 2, T_Comma,
    Expect(p + 3, I_Identifier,
    Bind(findVariable(toks[p + 3].v, p + 4), LAMBDA to :
    Expect(p + 4, T_CloseParen,
    Expect(p + 5, T_Semicolon,
    R("", p + 6,
      Node("Append", <<toks[p + 1].v, toks[p + 3].v>>, <<from.n, to.n>>, <<>>))))))))))

(* lines 151-162: '=' expr ';' and the node. `index` is the index          *)
(* expression built, Nil when none was; `bracket` is the flag line 155     *)
(* reads.                                                                    *)
parseAssignValue(name, bracket, index, p) ==
    Expect(p, T_Equal,
    Bind(parseOrExpr(move(p)), LAMBDA e :
    Expect(e.p, T_Semicolon,
    Bind(findVariable(name, e.p), LAMBDA var :
    R("", move(e.p),
      IF bracket
      THEN Node("AssignIndexed", <<name>>, <<var.n>>,
                <<index, Node("Or", <<>>, <<>>, <<e.n>>)>>)
      ELSE Node("Assign", <<name>>, <<var.n>>,
                <<Node("Or", <<>>, <<>>, <<e.n>>)>>))))))

(* parseAssignStatement(variable): the cursor is past the target's name.   *)
(* `bracket` is assigned only when '[' is accepted; otherwise line 155     *)
(* reads it uninitialized, and `garbage` is the value it then holds.       *)
parseAssignStatement(name, garbage, p) ==
    IF accept(p, T_OpenBracket)
    THEN Bind(parseOrExpr(move(p)), LAMBDA i :
            Expect(i.p, T_CloseBracket,
            parseAssignValue(name, TRUE, Node("Or", <<>>, <<>>, <<i.n>>),
                             move(i.p))))
    ELSE parseAssignValue(name, garbage, Nil, p)

(* parseAssignOrFunCall(): the cursor is past the leading identifier tk.   *)
parseAssignOrFunCall(tk, garbage, p) ==
    IF accept(p, T_OpenParen)
    THEN Bind(parseFunCall(tk.v, move(p)), LAMBDA r :
            Expect(r.p, T_Semicolon, R("", move(r.p), r.n)))
    ELSE IF ~existVariable(tk.v) THEN Throw(UndefinedVariable, p)
    ELSE parseAssignStatement(tk.v, garbage, p)

(* parseArgs(fun): the parameter names up to ')', in n.a.                  *)
RECURSIVE parseArgsLoop(_, _)
parseArgsLoop(params, p) ==
    IF accept(p, T_Comma)
    THEN IF accept(move(p), I_Identifier)
         THEN parseArgsLoop(Append(params, toks[move(p)].v), move(move(p)))
         ELSE Throw(SyntaxError, move(p))
    ELSE IF accept(p, T_CloseParen)
    THEN R("", move(p), Node("Params", params, <<>>, <<>>))
    ELSE Throw(SyntaxError, p)

parseArgs(p) ==
    IF accept(p, I_Identifier)
    THEN parseArgsLoop(<<toks[p].v>>, move(p))
    ELSE IF accept(p, T_CloseParen)
    THEN R("", move(p), Node("Params", <<>>, <<>>, <<>>))
    ELSE Throw(SyntaxError, p)

-----------------------------------------------------------------------------
(* The state the actions share.                                            *)

BlockStatement(parent, variables) ==
    [parent |-> parent, vars |-> variables, stmts |-> <<>>]

FunctionDefinition(params, body) == [params |-> params, body |-> body]

(* Program::addFunction: the table maps the name to this definition.       *)
addFunction(name, def) ==
    [n \in DOMAIN program \cup {name} |-> IF n = name THEN def ELSE program[n]]

addStatement(bs, b, node) == [bs EXCEPT ![b].stmts = Append(@, node)]

addVariable(bs, b, name) == [bs EXCEPT ![b].vars = @ \cup {name}]

Range(f) == {f[i] : i \in DOMAIN f}

top == stack[Len(stack)]
pop == SubSeq(stack, 1, Len(stack) - 1)

Frame(kind, blk, owner, cond, thenBlock) ==
    [kind |-> kind, blk |-> blk, owner |-> owner, cond |-> cond,
     thenBlock |-> thenBlock]

(* A runtime_error leaves parseProgram; the cursor stays where it was.     *)
Raise(f, p) ==
    /\ pc' = "fault"
    /\ fault' = f
    /\ pos' = p
    /\ current' = toks[p - 1]

(* The tokens before p are consumed; the last of them is the current one. *)
Advance(p) ==
    /\ pos' = p
    /\ current' = toks[p - 1]

(* block->addStatement(parseX()) for a statement that opens no block.      *)
Statement(r) ==
    IF r.f # ""
    THEN Raise(r.f, r.p) /\ UNCHANGED <<block, blocks, program, stack, toks>>
    ELSE /\ Advance(r.p)
         /\ blocks' = addStatement(blocks, block, r.n)
         /\ UNCHANGED <<pc, fault, block, program, stack, toks>>

-----------------------------------------------------------------------------
(* parseProgram                                                             *)

(* while (scr->getToken().getType() != T_EOF): the end of input            *)
ParseProgramEnd ==
    /\ pc = "parseProgram"
    /\ accept(pos, T_EOF)
    /\ pc' = "done"
    /\ UNCHANGED <<toks, pos, current, block, blocks, program, stack, fault>>

(* ... and any other token enters the loop body.                           *)
ParseProgramLoop ==
    /\ pc = "parseProgram"
    /\ ~accept(pos, T_EOF)
    /\ pc' = "accept"
    /\ UNCHANGED <<toks, pos, current, block, blocks, program, stack, fault>>

(* accept(K_Fun, NOTHROW) returned false: nothing is consumed and the      *)
(* loop tests the same token again.                                         *)
AcceptOther ==
    /\ pc = "accept"
    /\ ~accept(pos, K_Fun)
    /\ pc' = "parseProgram"
    /\ UNCHANGED <<toks, pos, current, block, blocks, program, stack, fault>>

(* The function is not entered in the table before its body is parsed.     *)
parseFunctionUnregistered ==
    /\ pc = "accept"
    /\ accept(pos, K_Fun)
    /\ LET p == move(pos)
           a == IF accept(p, I_Identifier) /\ accept(move(p), T_OpenParen)
                THEN parseArgs(move(move(p)))
                ELSE Throw(SyntaxError,
                           IF accept(p, I_Identifier) THEN move(p) ELSE p)
           func == Len(blocks) + 1
       IN  IF a.f # ""
           THEN Raise(a.f, a.p) /\ UNCHANGED <<block, blocks, program, stack, toks>>
           ELSE /\ blocks' = Append(blocks, BlockStatement(0, Range(a.n.a)))
                /\ UNCHANGED program
                /\ IF ~accept(a.p, T_OpenBrace)
                   THEN Raise(SyntaxError, a.p) /\ UNCHANGED <<block, stack, toks>>
                   ELSE /\ Advance(move(a.p))
                        /\ pc' = "parseStmtBlock"
                        /\ block' = func
                        /\ stack' = Append(stack, Frame("function", func, block, Nil, 0))
                        /\ UNCHANGED <<fault, toks>>

(* accept(K_Fun) and parseFunction up to the entry of the body's           *)
(* parseStmtBlock: the name, the parameters, the registration, '{'.        *)
parseFunction ==
    /\ pc = "accept"
    /\ accept(pos, K_Fun)
    /\ LET p == move(pos)
           a == IF accept(p, I_Identifier) /\ accept(move(p), T_OpenParen)
                THEN parseArgs(move(move(p)))
                ELSE Throw(SyntaxError,
                           IF accept(p, I_Identifier) THEN move(p) ELSE p)
           func == Len(blocks) + 1
       IN  IF a.f # ""
           THEN Raise(a.f, a.p) /\ UNCHANGED <<block, blocks, program, stack, toks>>
           ELSE /\ blocks' = Append(blocks, BlockStatement(0, Range(a.n.a)))
                /\ program' = addFunction(toks[p].v, FunctionDefinition(a.n.a, func))
                /\ IF ~accept(a.p, T_OpenBrace)
                   THEN Raise(SyntaxError, a.p) /\ UNCHANGED <<block, stack, toks>>
                   ELSE /\ Advance(move(a.p))
                        /\ pc' = "parseStmtBlock"
                        /\ block' = func
                        /\ stack' = Append(stack, Frame("function", func, block, Nil, 0))
                        /\ UNCHANGED <<fault, toks>>

-----------------------------------------------------------------------------
(* parseStmtBlock: the loop of lines 66-97, one action per case of the     *)
(* switch, and the exit of line 99 per caller.                             *)

InBlock == pc = "parseStmtBlock" /\ ~accept(pos, T_CloseBrace)

(* A new BlockStatement whose parent is the current block; parseStmtBlock  *)
(* makes it the current block (line 62).                                    *)
Enter(kind, p, cond, thenBlock) ==
    /\ Advance(p)
    /\ blocks' = Append(blocks, BlockStatement(block, {}))
    /\ block' = Len(blocks) + 1
    /\ stack' = Append(stack, Frame(kind, Len(blocks) + 1, block, cond, thenBlock))
    /\ UNCHANGED <<pc, fault, program, toks>>

(* '(' condition ')' '{' of an if or a while; the cursor is past the       *)
(* keyword.                                                                  *)
parseCondition(p) ==
    Expect(p, T_OpenParen,
    Bind(parseOrExpr(move(p)), LAMBDA r :
    Expect(r.p, T_CloseParen,
    Expect(move(r.p), T_OpenBrace,
    R("", move(move(r.p)), r.n)))))

parseIfStatement ==
    /\ InBlock
    /\ accept(pos, K_If)
    /\ LET r == parseCondition(move(pos))
       IN  IF r.f # ""
           THEN Raise(r.f, r.p) /\ UNCHANGED <<block, blocks, program, stack, toks>>
           ELSE Enter("if", r.p, r.n, 0)

parseWhileStatement ==
    /\ InBlock
    /\ accept(pos, K_While)
    /\ LET r == parseCondition(move(pos))
       IN  IF r.f # ""
           THEN Raise(r.f, r.p) /\ UNCHANGED <<block, blocks, program, stack, toks>>
           ELSE Enter("while", r.p, r.n, 0)

(* case T_OpenBrace: a nested block                                        *)
parseNestedBlock ==
    /\ InBlock
    /\ accept(pos, T_OpenBrace)
    /\ Enter("block", move(pos), Nil, 0)

(* case I_Identifier                                                        *)
parseAssignOrFunCallStatement ==
    /\ InBlock
    /\ accept(pos, I_Identifier)
    /\ \E garbage \in BOOLEAN :
          Statement(parseAssignOrFunCall(toks[pos], garbage, move(pos)))

(* case K_Return                                                            *)
parseReturn ==
    /\ InBlock
    /\ accept(pos, K_Return)
    /\ Statement(parseReturnStatement(move(pos)))

(* case K_Continue, case K_Break: the statement is added, then ';' is      *)
(* required.                                                                 *)
parseContinueOrBreak ==
    /\ InBlock
    /\ toks[pos].t \in {K_Continue, K_Break}
    /\ blocks' = addStatement(blocks, block,
                     Node("Return",
                          <<IF accept(pos, K_Continue) THEN "Continue" ELSE "Break">>,
                          <<>>, <<>>))
    /\ IF accept(move(pos), T_Semicolon)
       THEN Advance(move(move(pos))) /\ UNCHANGED <<pc, fault>>
       ELSE Raise(SyntaxError, move(pos))
    /\ UNCHANGED <<block, program, stack, toks>>

(* case K_Append                                                            *)
parseAppend ==
    /\ InBlock
    /\ accept(pos, K_Append)
    /\ Statement(parseAppendStatement(move(pos)))

(* default: any other leading token, the end of input included             *)
parseStmtBlockDefault ==
    /\ InBlock
    /\ toks[pos].t \notin {K_If, K_While, I_Identifier, K_Var, K_Return,
                           K_Continue, K_Break, K_Append, T_OpenBrace}
    /\ pc' = "fault"
    /\ fault' = BlockParseInvalid
    /\ pos' = move(pos)
    /\ current' = toks[pos]
    /\ UNCHANGED <<block, blocks, program, stack, toks>>

(* The declaration is entered without the name being added to the block.   *)
parseInitStatementNoAdd ==
    /\ InBlock
    /\ accept(pos, K_Var)
    /\ LET p == move(pos)
       IN  IF ~accept(p, I_Identifier)
           THEN Raise(SyntaxError, p) /\ UNCHANGED blocks
           ELSE IF blockExistVariable(block, toks[p].v)
           THEN Raise(DuplicateVariable, move(p)) /\ UNCHANGED blocks
           ELSE /\ Advance(move(p))
                /\ pc' = "parseInitStatement"
                /\ UNCHANGED <<blocks, fault>>
    /\ UNCHANGED <<block, program, stack, toks>>

(* case K_Var, lines 104-111: the name, the test block->existVariable(id), *)
(* and block->addVariable(id, Var()).                                       *)
parseInitStatement ==
    /\ InBlock
    /\ accept(pos, K_Var)
    /\ LET p == move(pos)
       IN  IF ~accept(p, I_Identifier)
           THEN Raise(SyntaxError, p) /\ UNCHANGED blocks
           ELSE IF blockExistVariable(block, toks[p].v)
           THEN Raise(DuplicateVariable, move(p)) /\ UNCHANGED blocks
           ELSE /\ Advance(move(p))
                /\ blocks' = addVariable(blocks, block, toks[p].v)
                /\ pc' = "parseInitStatement"
                /\ UNCHANGED fault
    /\ UNCHANGED <<block, program, stack, toks>>

(* lines 112-120: the optional initializer, ';', and the statement.        *)
parseInitializer ==
    /\ pc = "parseInitStatement"
    /\ LET id == current.v
           e == IF accept(pos, T_Equal)
                THEN parseOrExpr(move(pos))
                ELSE R("", pos, Node("BaseMath", <<"+", "var">>, <<>>, <<>>))
       IN  IF e.f # "" THEN Raise(e.f, e.p) /\ UNCHANGED blocks
           ELSE IF ~accept(e.p, T_Semicolon)
           THEN Raise(SyntaxError, e.p) /\ UNCHANGED blocks
           ELSE /\ Advance(move(e.p))
                /\ pc' = "parseStmtBlock"
                /\ blocks' = addStatement(blocks, block,
                                 Node("Assign", <<id>>,
                                      <<blockFindVariable(block, id)>>, <<e.n>>))
                /\ UNCHANGED fault
    /\ UNCHANGED <<block, program, stack, toks>>

-----------------------------------------------------------------------------
(* accept(T_CloseBrace) ends the loop; line 99 sets the cursor and         *)
(* parseStmtBlock returns to its caller.                                    *)

AtClose == pc = "parseStmtBlock" /\ accept(pos, T_CloseBrace)

(* block = newBlock.getParent()                                             *)
restoredBlock == blocks[top.blk].parent

(* ... to parseFunction, which returns to parseProgram                     *)
returnToFunction ==
    /\ AtClose
    /\ top.kind = "function"
    /\ Advance(move(pos))
    /\ block' = restoredBlock
    /\ stack' = pop
    /\ pc' = "parseProgram"
    /\ UNCHANGED <<blocks, program, fault, toks>>

(* ... to case T_OpenBrace, which adds the nested block to the block the   *)
(* cursor now points to (line 92)                                           *)
returnToNestedBlock ==
    /\ AtClose
    /\ top.kind = "block"
    /\ Advance(move(pos))
    /\ block' = restoredBlock
    /\ stack' = pop
    /\ blocks' = addStatement(blocks, restoredBlock,
                     Node("Block", <<>>, <<top.blk>>, <<>>))
    /\ UNCHANGED <<pc, program, fault, toks>>

(* ... to parseIfStatement with no else following                          *)
returnToIf ==
    /\ AtClose
    /\ top.kind = "if"
    /\ ~accept(move(pos), K_Else)
    /\ Advance(move(pos))
    /\ block' = restoredBlock
    /\ stack' = pop
    /\ blocks' = addStatement(blocks, top.owner,
                     Node("If", <<>>, <<top.blk>>, <<top.cond>>))
    /\ UNCHANGED <<pc, program, fault, toks>>

(* ... to parseIfStatement with an else: '{' and the else block, whose     *)
(* parent is the block the cursor was set to                                *)
returnToIfElse ==
    /\ AtClose
    /\ top.kind = "if"
    /\ accept(move(pos), K_Else)
    /\ LET p == move(move(pos))
       IN  IF ~accept(p, T_OpenBrace)
           THEN /\ Raise(SyntaxError, p)
                /\ block' = restoredBlock
                /\ stack' = pop
                /\ UNCHANGED blocks
           ELSE /\ Advance(move(p))
                /\ blocks' = Append(blocks, BlockStatement(restoredBlock, {}))
                /\ block' = Len(blocks) + 1
                /\ stack' = Append(pop, Frame("else", Len(blocks) + 1, top.owner,
                                              top.cond, top.blk))
                /\ UNCHANGED <<pc, fault>>
    /\ UNCHANGED <<program, toks>>

(* ... to parseIfStatement from the else block                             *)
returnToElse ==
    /\ AtClose
    /\ top.kind = "else"
    /\ Advance(move(pos))
    /\ block' = restoredBlock
    /\ stack' = pop
    /\ blocks' = addStatement(blocks, top.owner,
                     Node("If", <<>>, <<top.thenBlock, top.blk>>, <<top.cond>>))
    /\ UNCHANGED <<pc, program, fault, toks>>

(* ... to parseWhileStatement                                              *)
returnToWhile ==
    /\ AtClose
    /\ top.kind = "while"
    /\ Advance(move(pos))
    /\ block' = restoredBlock
    /\ stack' = pop
    /\ blocks' = addStatement(blocks, top.owner,
                     Node("While", <<>>, <<top.blk>>, <<top.cond>>))
    /\ UNCHANGED <<pc, program, fault, toks>>

-----------------------------------------------------------------------------
(* The inputs: token streams as the scanner delivers them for the source  *)
(* texts below, written word by word.                                       *)

MaxStmts == 2
MaxDepth == 2
MaxOperands == 3

Identifiers == {"a", "b", "c", "f", "g", "h"}
Numerals == {"0", "1", "2", "3", "4", "5"}

Word(w) ==
    IF w \in Identifiers THEN Id(w)
    ELSE IF w \in Numerals THEN Num(w)
    ELSE Tk(w)

Lex(ws) == [i \in 1..Len(ws) |-> Word(ws[i])]

(* All concatenations of at most n members of S.                           *)
RECURSIVE Concat(_, _)
Concat(S, n) ==
    IF n = 0 THEN {<<>>}
    ELSE Concat(S, n - 1) \cup {s \o x : s \in Concat(S, n - 1), x \in S}

Function(name, params, body) ==
    <<"fun", name, "(">> \o params \o <<")", "{">> \o body \o <<"}">>

(* Declarations and references in one block of fun f(a).                   *)
SimpleStatements == {
    <<"var", "a", ";">>,
    <<"var", "b", ";">>,
    <<"var", "b", "=", "b", "+", "1", ";">>,
    <<"var", "b", "=", "c", ";">>,
    <<"a", "=", "b", ";">>,
    <<"b", "[", "a", "]", "=", "1", ";">>,
    <<"append", "(", "a", ",", "b", ")", ";">>,
    <<"var", "c", "=", "len", "(", "b", ")", ";">>,
    <<"return", "a", "[", "0", ":", "b", "]", ";">>,
    <<"c", "=", "-", "b", "[", "a", "]", ";">>,
    <<"break", ";">>,
    <<"continue", ";">> }

StatementPrograms ==
    {Function("f", <<"a">>, body) : body \in Concat(SimpleStatements, MaxStmts)}

(* Nested blocks, to the depth MaxDepth, each possibly followed by a       *)
(* statement of the enclosing block.                                        *)
InnerStatements == {
    <<>>,
    <<"var", "a", ";">>,
    <<"var", "b", ";">>,
    <<"b", "=", "a", ";">>,
    <<"return", "b", ";">>,
    <<"var", "c", "=", "b", ";">> }

Wrap(x) == {
    <<"{">> \o x \o <<"}">>,
    <<"if", "(", "a", ")", "{">> \o x \o <<"}">>,
    <<"if", "(", "a", ")", "{">> \o x \o <<"}", "else", "{", "var", "b", ";", "}">>,
    <<"if", "(", "a", ")", "{", "}", "else", "{">> \o x \o <<"}">>,
    <<"while", "(", "a", "<", "1", ")", "{">> \o x \o <<"}">> }

RECURSIVE Nested(_)
Nested(d) ==
    IF d = 0 THEN InnerStatements
    ELSE InnerStatements
         \cup UNION {Wrap(x) : x \in Nested(d - 1)}
         \cup UNION {{w \o <<"b", "=", "1", ";">> : w \in Wrap(x)} : x \in Nested(d - 1)}

NestedPrograms ==
    {Function("f", <<"a">>, pre \o x) :
        pre \in {<<>>, <<"var", "b", ";">>}, x \in Nested(MaxDepth)}

(* Two functions and the calls between them.                               *)
ParameterLists == {<<>>, <<"a">>, <<"a", ",", "b">>}

CallStatements == {
    <<>>,
    <<"f", "(", ")", ";">>,
    <<"f", "(", "1", ")", ";">>,
    <<"g", "(", "1", ",", "2", ")", ";">>,
    <<"h", "(", ")", ";">>,
    <<"return", "g", "(", ")", ";">>,
    <<"return", "f", "(", "1", "+", "2", "*", "3", ")", ";">>,
    <<"return", "g", "(", "[", "1", ",", "2", "]", ",", "f", "(", "1", ")", ")", ";">>,
    <<"return", "f", "(", "(", "1", ")", ",", "-", "2", ")", "||", "g", "(", "0", ")", ";">> }

Functions ==
    {Function(n, ps, body) :
        n \in {"f", "g"}, ps \in ParameterLists, body \in CallStatements}

CallPrograms == Functions \cup {x \o y : x \in Functions, y \in Functions}

(* Expressions of at most MaxOperands operands: the i-th operand is the    *)
(* numeral i, bare, negated or logically negated.                           *)
BinaryOperators == {"+", "-", "*", "||", "&&", "<"}
Prefixes == {<<>>, <<"!">>, <<"-">>}

Numeral(n) == <<"1", "2", "3", "4", "5">>[n]

RECURSIVE Expressions(_)
Expressions(n) ==
    IF n = 1 THEN {pre \o <<"1">> : pre \in Prefixes}
    ELSE {e \o <<op>> \o pre \o <<Numeral(n)>> :
             e \in Expressions(n - 1), op \in BinaryOperators, pre \in Prefixes}

ExpressionPrograms ==
    {Function("f", <<"a", ",", "b", ",", "c">>, <<"return">> \o e \o <<";">>) :
        e \in UNION {Expressions(n) : n \in 1..MaxOperands}
              \cup {<<"a", "||", "b", "&&", "c">>,
                    <<"a", "<", "b", "==", "c">>,
                    <<"!", "a", "+", "b", "/", "c">>,
                    <<"(", "1", "+", "2", ")", "*", "3">>}}

(* Streams that are not function definitions throughout.                   *)
OtherPrograms == {
    <<>>,
    <<";">>,
    <<"var", "a", ";">>,
    <<"fun", "f", "(", ")", "{", "}", ";">>,
    <<"fun", "f", "(", ")", "{", "}", "}", "fun", "g", "(", ")", "{", "}">>,
    <<"fun", "(", ")", "{", "}">>,
    <<"fun", "f", "a", ")", "{", "}">>,
    <<"fun", "f", "(", "a", ",", ")", "{", "}">>,
    <<"fun", "f", "(", "a", "b", ")", "{", "}">>,
    <<"fun", "f", "(", "a", ")", "var", "b", ";">>,
    <<"fun", "f", "(", "a", ")", "{", "var", "b", ";">>,
    <<"fun", "f", "(", "a", ")", "{", "if", "(", "a", ")", "{", "}", "else", "var", "b", ";", "}">>,
    <<"fun", "f", "(", "a", ")", "{", "if", "(", "a", ")", "{", "b", "=", "1", ";", "}", "}">>,
    <<"fun", "f", "(", "a", ")", "{", "while", "(", "a", ")", "{", "return", ";", "}", "}">>,
    <<"fun", "f", "(", "a", ")", "{", "{", "a", "=", "1", "}", "}">>,
    <<"fun", "f", "(", "a", ")", "{", "return", "len", "(", "c", ")", ";", "}">>,
    <<"fun", "f", "(", "a", ")", "{", "append", "(", "c", ",", "a", ")", ";", "}">>,
    <<"fun", "f", "(", "a", ")", "{", "break", "}">>,
    <<"fun", "f", "(", "a", ")", "{", "a", "=", "[", "1", ",", "]", ";", "}">>,
    <<"fun", "f", "(", "1", ")", "{", "}">>,
    <<"fun", "f", "(", "a", ")", "{", ";", "}">>,
    <<"fun", "f", "(", "a", ")", "{", "a", "=", "1", ";", "else", "{", "}", "}">>,
    <<"fun", "f", "(", "a", ")", "{", "fun", "g", "(", ")", "{", "}", "}">> }

Sources ==
    StatementPrograms \cup NestedPrograms \cup CallPrograms
        \cup ExpressionPrograms \cup OtherPrograms

Programs == {Lex(ws \o <<"eof">>) : ws \in Sources}

Init ==
    /\ toks \in Programs
    /\ pos = 1
    /\ current = Tk("")
    /\ block = 0
    /\ blocks = <<>>
    /\ program = <<>>
    /\ stack = <<>>
    /\ pc = "parseProgram"
    /\ fault = ""

Next ==
    \/ ParseProgramEnd
    \/ ParseProgramLoop
    \/ AcceptOther
    \/ parseFunction
    \/ parseIfStatement
    \/ parseWhileStatement
    \/ parseNestedBlock
    \/ parseAssignOrFunCallStatement
    \/ parseReturn
    \/ parseContinueOrBreak
    \/ parseAppend
    \/ parseStmtBlockDefault
    \/ parseInitStatement
    \/ parseInitializer
    \/ returnToFunction
    \/ returnToNestedBlock
    \/ returnToIf
    \/ returnToIfElse
    \/ returnToElse
    \/ returnToWhile

Spec == Init /\ [][Next]_vars

-----------------------------------------------------------------------------
(* The lexical structure of the token stream, read off the tokens alone:   *)
(* what the properties below compare the parser's state with.              *)

(* The positions of the braces that are open after token i.                *)
RECURSIVE OpenBraces(_)
OpenBraces(i) ==
    IF i = 0 THEN <<>>
    ELSE LET open == OpenBraces(i - 1)
         IN  IF toks[i].t = T_OpenBrace THEN Append(open, i)
             ELSE IF toks[i].t = T_CloseBrace /\ open # <<>>
             THEN SubSeq(open, 1, Len(open) - 1)
             ELSE open

(* The blocks, outermost first, that token p lies in.                      *)
Enclosing(p) == OpenBraces(p - 1)

IsPrefix(s, t) == Len(s) <= Len(t) /\ SubSeq(t, 1, Len(s)) = s

Positions == 1..(Len(toks) - 1)

(* `fun name (` and the first ')' after it.                                *)
Headers ==
    {h \in Positions : /\ h + 2 <= Len(toks)
                       /\ toks[h].t = K_Fun
                       /\ toks[h + 1].t = I_Identifier
                       /\ toks[h + 2].t = T_OpenParen
                       /\ \E c \in (h + 3)..Len(toks) : toks[c].t = T_CloseParen}

HeaderClose(h) ==
    CHOOSE c \in (h + 3)..Len(toks) :
        /\ toks[c].t = T_CloseParen
        /\ \A k \in (h + 3)..(c - 1) : toks[k].t # T_CloseParen

HeaderParams(h) ==
    LET ids == SelectSeq(SubSeq(toks, h + 3, HeaderClose(h) - 1),
                         LAMBDA t : t.t = I_Identifier)
    IN  [i \in 1..Len(ids) |-> ids[i].v]

(* The header of the function whose body token p lies in.                  *)
HeaderOf(p) ==
    CHOOSE h \in Headers :
        /\ HeaderClose(h) < p
        /\ \A g \in Headers : HeaderClose(g) < p => g <= h

InBody(p) == Enclosing(p) # <<>> /\ \E h \in Headers : HeaderClose(h) < p

(* `var name`, a name that is read or assigned, and `name (`.              *)
DeclSites ==
    {q \in Positions : toks[q].t = K_Var /\ toks[q + 1].t = I_Identifier}

RefSites ==
    {p \in Positions : /\ p > 1
                       /\ toks[p].t = I_Identifier
                       /\ toks[p + 1].t # T_OpenParen
                       /\ toks[p - 1].t \notin {K_Fun, K_Var}
                       /\ InBody(p)}

CallSites ==
    {p \in Positions : /\ p > 1
                       /\ toks[p].t = I_Identifier
                       /\ toks[p + 1].t = T_OpenParen
                       /\ toks[p - 1].t # K_Fun}

(* The name is declared by a `var` of the block of q itself, or is a       *)
(* parameter and q lies in the function's own block.                       *)
DeclaredInSameBlock(q, name) ==
    \/ Len(Enclosing(q)) = 1 /\ name \in Range(HeaderParams(HeaderOf(q)))
    \/ \E d \in DeclSites : /\ d + 1 < q
                            /\ toks[d + 1].v = name
                            /\ Enclosing(d) = Enclosing(q)

(* The name is a parameter, or declared by a `var` before p in a block     *)
(* that is still open at p.                                                 *)
Declared(p, name) ==
    \/ name \in Range(HeaderParams(HeaderOf(p)))
    \/ \E d \in DeclSites : /\ d + 1 < p
                            /\ toks[d + 1].v = name
                            /\ IsPrefix(Enclosing(d), Enclosing(p))

(* A function of this name has its header and parameter list before p.     *)
DefinedBefore(p, name) ==
    \E h \in Headers : toks[h + 1].v = name /\ HeaderClose(h) < p

(* ... and the one the table holds is the last of them.                    *)
CalleeHeader(p, name) ==
    CHOOSE h \in Headers :
        /\ toks[h + 1].v = name /\ HeaderClose(h) < p
        /\ \A g \in Headers :
              toks[g + 1].v = name /\ HeaderClose(g) < p => g <= h

(* The ')' that closes the '(' before position i, 0 when there is none;    *)
(* d counts the parentheses opened since.                                   *)
RECURSIVE CloseParen(_, _)
CloseParen(i, d) ==
    IF i > Len(toks) THEN 0
    ELSE IF toks[i].t = T_OpenParen THEN CloseParen(i + 1, d + 1)
    ELSE IF toks[i].t = T_CloseParen
    THEN IF d = 0 THEN i ELSE CloseParen(i + 1, d - 1)
    ELSE CloseParen(i + 1, d)

(* The commas from i up to c outside every inner bracket pair.             *)
RECURSIVE Commas(_, _, _)
Commas(i, c, d) ==
    IF i >= c THEN 0
    ELSE IF toks[i].t \in {T_OpenParen, T_OpenBracket} THEN Commas(i + 1, c, d + 1)
    ELSE IF toks[i].t \in {T_CloseParen, T_CloseBracket} /\ d > 0
    THEN Commas(i + 1, c, d - 1)
    ELSE (IF toks[i].t = T_Comma /\ d = 0 THEN 1 ELSE 0) + Commas(i + 1, c, d)

(* The number of comma-separated arguments of the call at p.               *)
ArgumentCount(p) ==
    IF CloseParen(p + 2, 0) = p + 2 THEN 0
    ELSE 1 + Commas(p + 2, CloseParen(p + 2, 0), 0)

(* The positions of i..j that hold a token of one of the types.           *)
Cut(i, j, types) == {k \in i..j : toks[k].t \in types}

Faulted(f, p) == pc = "fault" /\ fault = f /\ pos = p

-----------------------------------------------------------------------------
(* C5: a top-level token other than `fun` is skipped: the step that finds  *)
(* accept(K_Fun, NOTHROW) false moves the cursor past the token, so that   *)
(* parseProgram reaches the end of input.                                   *)
C5_OtherTokensAreSkipped ==
    [][pc = "accept" /\ ~accept(pos, K_Fun) => pos' > pos]_vars

(* C9: an assignment builds the indexed node only for a target written     *)
(* with `[expr]`: no indexed assignment is built with an absent index, and *)
(* no plain one carries an index.                                           *)
C9_IndexedIffBracket ==
    \A b \in DOMAIN blocks : \A i \in DOMAIN blocks[b].stmts :
        /\ blocks[b].stmts[i].k = "AssignIndexed"
              => blocks[b].stmts[i].xs[1] # Nil
        /\ blocks[b].stmts[i].k = "Assign" => Len(blocks[b].stmts[i].xs) = 1

(* The declaration at q is the statement the parser is in: its name has    *)
(* been accepted as a new one and no ';' has ended the statement.          *)
InDeclaration(q) ==
    /\ q + 2 <= pos
    /\ \A k \in (q + 2)..(pos - 1) :
          toks[k].t \notin {T_Semicolon, T_OpenBrace, T_CloseBrace}
    /\ ~Faulted(DuplicateVariable, q + 2)
    /\ pc \in {"parseInitStatement", "fault"}

(* C10: the name of a `var` declaration is in the current block's          *)
(* variables before the initializer is parsed: it is there when the        *)
(* initializer is about to be parsed and when the initializer or the       *)
(* closing ';' faults, and the initializer's reference to the name itself  *)
(* is never the undeclared one.                                             *)
C10_NameAddedBeforeInitializer ==
    /\ pc = "parseInitStatement" => current.v \in blocks[block].vars
    /\ \A q \in DeclSites :
          InDeclaration(q) =>
              /\ toks[q + 1].v \in blocks[block].vars
              /\ fault = UndefinedVariable => toks[pos - 1].v # toks[q + 1].v

(* `var x = x ...;` with no earlier x has been parsed without a fault.     *)
C10_SelfReferenceParsed ==
    \E q \in DeclSites :
        /\ InBody(q)
        /\ ~Declared(q, toks[q + 1].v)
        /\ toks[q + 2].t = T_Equal
        /\ toks[q + 3] = Id(toks[q + 1].v)
        /\ pos > q + 3
        /\ pc = "parseStmtBlock"
        /\ \E i \in DOMAIN blocks[block].stmts :
              /\ blocks[block].stmts[i].k = "Assign"
              /\ blocks[block].stmts[i].a = <<toks[q + 1].v>>

(* C6: the cursor is restored to the enclosing block however the nested    *)
(* parse completed: when a fault (an undeclared name, a wrong token, ...)  *)
(* has ended the parse inside a nested block, an if or else block or a     *)
(* while body, the cursor is the block that was current when that block    *)
(* was entered.                                                             *)
C6_RestoredHoweverCompleted ==
    /\ pc = "fault"
    /\ fault # DuplicateVariable
    /\ stack # <<>>
    /\ top.kind # "function"
    => block = top.owner

(* C1: a `var` declaration fails with DuplicateVariable exactly when its   *)
(* name is already declared in the block the declaration stands in; a name *)
(* declared only in an enclosing block (or a parameter, seen from a nested *)
(* block) is declared anew without a fault.                                 *)
C1_DuplicateIffInSameBlock ==
    \A q \in DeclSites :
        InBody(q) /\ q + 2 <= pos =>
            (Faulted(DuplicateVariable, q + 2)
                <=> DeclaredInSameBlock(q, toks[q + 1].v))

C3_CallsResolveToParsedHeaders ==
    /\ \A p \in CallSites :
          p + 2 <= pos =>
              (Faulted(UndefinedFunction, p + 2)
                  <=> ~DefinedBefore(p, toks[p].v))
    /\ pc \in {"parseStmtBlock", "parseInitStatement"} =>
          /\ toks[HeaderOf(pos) + 1].v \in DOMAIN program
          /\ program[toks[HeaderOf(pos) + 1].v]
                = FunctionDefinition(HeaderParams(HeaderOf(pos)), stack[1].blk)

(* A function has been called from inside its own body, and parsed.        *)
C3_SelfRecursionParsed ==
    \E p \in CallSites :
        /\ InBody(p)
        /\ toks[p].v = toks[HeaderOf(p) + 1].v
        /\ p + 2 <= pos
        /\ pc = "done"

(* C4: a call to a function of the table fails with ArityMismatch exactly  *)
(* when the number of its comma-separated arguments differs from the       *)
(* number of parameters of the callee, whatever the arguments are.         *)
C4_ArityMismatchIffCountsDiffer ==
    \A p \in CallSites :
        /\ DefinedBefore(p, toks[p].v)
        /\ CloseParen(p + 2, 0) # 0
        /\ CloseParen(p + 2, 0) < pos
        => (Faulted(ArityMismatch, CloseParen(p + 2, 0) + 1)
              <=> ArgumentCount(p)
                    # Len(HeaderParams(CalleeHeader(p, toks[p].v))))

(* A self-recursive call whose arguments are compound expressions has      *)
(* passed the test of its size.                                             *)
C4_CompoundArgumentsAccepted ==
    \E p \in CallSites :
        /\ InBody(p)
        /\ toks[p].v = toks[HeaderOf(p) + 1].v
        /\ ArgumentCount(p) > 0
        /\ Cut(p + 2, CloseParen(p + 2, 0), {T_Plus, T_Asterisk}) # {}
        /\ CloseParen(p + 2, 0) < pos
        /\ ~Faulted(ArityMismatch, CloseParen(p + 2, 0) + 1)

-----------------------------------------------------------------------------
(* The tree the precedence chain gives a bracket-free expression of block  *)
(* b, found by cutting the tokens i..j at the operators of each level, the *)
(* loosest first. Nil stands for "not an expression".                      *)

(* The members of a set of positions in increasing order.                  *)
Ascending(S) ==
    [n \in 1..Cardinality(S) |->
        CHOOSE k \in S : Cardinality({m \in S : m < k}) = n - 1]

(* The stretches of i..j between the cuts C.                               *)
Parts(i, j, C) ==
    [n \in 1..(Cardinality(C) + 1) |->
        <<IF n = 1 THEN i ELSE Ascending(C)[n - 1] + 1,
          IF n = Cardinality(C) + 1 THEN j ELSE Ascending(C)[n] - 1>>]

(* A '+' or '-' is a binary operator when an operand ends before it.       *)
AdditiveCut(i, j) ==
    {k \in Cut(i, j, {T_Plus, T_Minus}) :
        k > i /\ toks[k - 1].t \in {L_Numeric, I_Identifier}}

Operators(C) == [n \in 1..Cardinality(C) |-> toks[Ascending(C)[n]].t]

Chain(kind, ops, xs) ==
    IF \E n \in DOMAIN xs : xs[n] = Nil THEN Nil ELSE Node(kind, ops, <<>>, xs)

Operand(b, u, i) ==
    IF toks[i].t = L_Numeric
    THEN Node("BaseMath", <<u, "int", toks[i].v>>, <<>>, <<>>)
    ELSE IF toks[i].t = I_Identifier
    THEN Node("BaseMath", <<u, "var", toks[i].v>>,
              <<blockFindVariable(b, toks[i].v)>>, <<>>)
    ELSE Nil

Primary(b, i, j) ==
    IF i = j THEN Operand(b, "+", i)
    ELSE IF j = i + 1 /\ toks[i].t = T_Minus THEN Operand(b, "-", j)
    ELSE Nil

Multiplicative(b, i, j) ==
    LET C == Cut(i, j, {T_Asterisk, T_Slash})
    IN  Chain("Mult", Operators(C),
              [n \in 1..(Cardinality(C) + 1) |->
                  Primary(b, Parts(i, j, C)[n][1], Parts(i, j, C)[n][2])])

Additive(b, i, j) ==
    LET C == AdditiveCut(i, j)
    IN  Chain("Add", Operators(C),
              [n \in 1..(Cardinality(C) + 1) |->
                  Multiplicative(b, Parts(i, j, C)[n][1], Parts(i, j, C)[n][2])])

LogicalNot(b, i, j) ==
    IF i <= j /\ toks[i].t = T_Exclamation
    THEN Chain("BaseLogic", <<"!">>, <<Additive(b, i + 1, j)>>)
    ELSE Chain("BaseLogic", <<>>, <<Additive(b, i, j)>>)

Relational(b, i, j) ==
    LET C == Cut(i, j, Comparators)
    IN  IF Cardinality(C) > 1 THEN Nil
        ELSE Chain("Rel", Operators(C),
                   [n \in 1..(Cardinality(C) + 1) |->
                       LogicalNot(b, Parts(i, j, C)[n][1], Parts(i, j, C)[n][2])])

Conjunction(b, i, j) ==
    LET C == Cut(i, j, {T_Ampersand2})
    IN  Chain("And", <<>>,
              [n \in 1..(Cardinality(C) + 1) |->
                  Relational(b, Parts(i, j, C)[n][1], Parts(i, j, C)[n][2])])

Disjunction(b, i, j) ==
    LET C == Cut(i, j, {T_Bar2})
    IN  Chain("Or", <<>>,
              [n \in 1..(Cardinality(C) + 1) |->
                  Conjunction(b, Parts(i, j, C)[n][1], Parts(i, j, C)[n][2])])

(* `return E ;` at r with E free of brackets and calls, over numerals and  *)
(* declared names; EndOf(r) is its ';'.                                     *)
EndOf(r) ==
    CHOOSE s \in (r + 1)..Len(toks) :
        /\ toks[s].t \in {T_Semicolon, T_EOF}
        /\ \A k \in (r + 1)..(s - 1) : toks[k].t \notin {T_Semicolon, T_EOF}

ReturnSites ==
    {r \in Positions :
        /\ toks[r].t = K_Return
        /\ InBody(r)
        /\ toks[EndOf(r)].t = T_Semicolon
        /\ \A k \in (r + 1)..(EndOf(r) - 1) :
              \/ toks[k].t \in {L_Numeric, T_Plus, T_Minus, T_Asterisk, T_Slash,
                                T_Exclamation, T_Bar2, T_Ampersand2}
              \/ toks[k].t \in Comparators
              \/ toks[k].t = I_Identifier /\ Declared(k, toks[k].v)}

Built == UNION {Range(blocks[b].stmts) : b \in DOMAIN blocks}

(* The comparators of i..j that follow another one with no `||` or `&&`    *)
(* between the two.                                                         *)
SecondComparators(i, j) ==
    {k \in Cut(i, j, Comparators) :
        \E m \in Cut(i, k - 1, Comparators) :
            Cut(m, k, {T_Bar2, T_Ampersand2}) = {}}

(* C7: the tree built for an expression is the one the precedence chain    *)
(* or < and < relational < logical-not < additive < multiplicative <       *)
(* primary gives: a parsed `return E ;` holds exactly that tree (chains    *)
(* left to right, a leading '!' over the whole additive chain), the parse  *)
(* faults inside the statement only when E has no such tree, and a second  *)
(* comparator is not absorbed: the parse never gets past it.               *)
C7_TreeFollowsPrecedence ==
    \A r \in ReturnSites :
        /\ pos > EndOf(r) =>
              \E b \in DOMAIN blocks :
                  /\ Disjunction(b, r + 1, EndOf(r) - 1) # Nil
                  /\ Node("Return", <<"Return">>, <<>>,
                          <<Disjunction(b, r + 1, EndOf(r) - 1)>>)
                        \in Range(blocks[b].stmts)
        /\ pc = "fault" /\ r < pos /\ pos <= EndOf(r) =>
              Disjunction(block, r + 1, EndOf(r) - 1) = Nil
        /\ \A k \in SecondComparators(r + 1, EndOf(r) - 1) : pos <= k

(* `return ! 1 + 2 * 3 ;` has been parsed as !(1 + (2 * 3)).               *)
C7_NotOverSumOverProduct ==
    Node("Return", <<"Return">>, <<>>, << Node("Or", <<>>, <<>>, <<
      Node("And", <<>>, <<>>, << Node("Rel", <<>>, <<>>, <<
        Node("BaseLogic", <<"!">>, <<>>, <<
          Node("Add", <<"+">>, <<>>, <<
            Node("Mult", <<>>, <<>>, <<
              Node("BaseMath", <<"+", "int", "1">>, <<>>, <<>>) >>),
            Node("Mult", <<"*">>, <<>>, <<
              Node("BaseMath", <<"+", "int", "2">>, <<>>, <<>>),
              Node("BaseMath", <<"+", "int", "3">>, <<>>, <<>>) >>) >>)
        >>) >>) >>) >>) >>) \in Built

-----------------------------------------------------------------------------
(* The programs of the families above whose every statement follows the    *)
(* documented grammar.                                                      *)
GrammaticalPrograms ==
    {Lex(ws \o <<"eof">>) :
        ws \in StatementPrograms \cup NestedPrograms \cup CallPrograms}

(* ... and the documented rules of names: every name read or assigned is   *)
(* declared in its block or an enclosing one, no `var` repeats a name of   *)
(* its own block, every call names a function defined before it and has    *)
(* as many arguments as that function has parameters.                      *)
WellFormed ==
    /\ toks \in GrammaticalPrograms
    /\ \A p \in RefSites : Declared(p, toks[p].v)
    /\ \A q \in DeclSites : ~DeclaredInSameBlock(q, toks[q + 1].v)
    /\ \A p \in CallSites :
          /\ DefinedBefore(p, toks[p].v)
          /\ ArgumentCount(p) = Len(HeaderParams(CalleeHeader(p, toks[p].v)))

(* The last header of the name of header h.                                *)
LastHeader(h) ==
    CHOOSE g \in Headers :
        /\ toks[g + 1].v = toks[h + 1].v
        /\ \A k \in Headers : toks[k + 1].v = toks[h + 1].v => k <= g

(* C8: a well-formed program of the documented grammar parses without a    *)
(* fault, and the function table then holds exactly the functions the      *)
(* source defines, each with as many parameters as its header lists; the   *)
(* parameters are fixed when the body is parsed.                            *)
C8_WellFormedProgramsParse ==
    WellFormed =>
        /\ pc # "fault"
        /\ pc \in {"parseStmtBlock", "parseInitStatement"} =>
              program[toks[HeaderOf(pos) + 1].v].params
                  = HeaderParams(HeaderOf(pos))
        /\ pc = "done" =>
              /\ DOMAIN program = {toks[h + 1].v : h \in Headers}
              /\ \A h \in Headers :
                    Len(program[toks[h + 1].v].params)
                        = Len(HeaderParams(LastHeader(h)))

====
